---- MODULE Spec2Model ----
(***************************************************************************)
(* State-machine model of the SceneViewer effect of src/src/App.jsx: the   *)
(* drag state, the rotation of watermelonGroup, the renderer size and the  *)
(* camera aspect, the OBJ load, the requestAnimationFrame loop and the     *)
(* effect's cleanup.  Every callback of the effect is one action; the      *)
(* browser is single threaded, so callbacks never overlap.                 *)
(*                                                                         *)
(* Angles are integers in micro-radians (1 rad = 1000000): 0.01 rad is     *)
(* 10000, 0.005 rad is 5000 and Math.PI / 3 = 1.0471975... is 1047198.     *)
(* Floating-point rounding of the additions is not modelled.               *)
(***************************************************************************)
EXTENDS Integers, Sequences, FiniteSets, TLC

VARIABLES
    isDragging,     \* App.jsx:122
    lastX,          \* App.jsx:123
    lastY,          \* App.jsx:124
    rotationY,      \* watermelonGroup.rotation.y (yaw), micro-radians
    rotationX,      \* watermelonGroup.rotation.x (pitch), micro-radians
    clientSize,     \* <<container.clientWidth, container.clientHeight>>
    rendererSize,   \* <<w, h>> last given to renderer.setSize
    aspect,         \* camera.aspect, a reduced fraction <<num, den>>
    resizeQueued,   \* a window resize event is waiting to be dispatched
    listeners,      \* registered listeners, records [type, handler]
    attached,       \* renderer.domElement.parentNode === container
    removeChildCalls, \* calls of container.removeChild
    disposed,       \* renderer.dispose() was called (the cleanup ran)
    rafPending,     \* callbacks scheduled by requestAnimationFrame
    renders,        \* calls of renderer.render(scene, camera)
    load,           \* "pending", "loaded" or "failed"
    children,       \* number of children of watermelonGroup
    errorReports,   \* calls of console.error by the load's error callback
    ev              \* the event or callback that ran last, with the
                    \* coordinates its handler read through getXY

vars == <<isDragging, lastX, lastY, rotationY, rotationX, clientSize,
          rendererSize, aspect, resizeQueued, listeners, attached,
          removeChildCalls, disposed, rafPending, renders, load, children,
          errorReports, ev>>

dragVars == <<isDragging, lastX, lastY, rotationY, rotationX>>
viewVars == <<rendererSize, aspect>>
lifeVars == <<listeners, attached, removeChildCalls, disposed>>
loadVars == <<load, children, errorReports>>

----------------------------------------------------------------------------
(* Bounds of the model *)

MaxFrames == 2
MaxSwing == 1

XCoords == {100, 150}
YCoords == {100, 260}
Sizes == {<<800, 600>>, <<400, 0>>}

----------------------------------------------------------------------------
(* Program constants *)

PiThird == 1047198
YawPerPixel == 10000
PitchPerPixel == 5000
IdleStep == 5000

\* The yaw window the model explores: MaxSwing pointer sweeps between the two
\* x coordinates to either side, plus the idle steps of MaxFrames frames.
YawInWindow(yaw) ==
    /\ yaw >= -(MaxSwing * 50 * YawPerPixel)
    /\ yaw <= MaxSwing * 50 * YawPerPixel + MaxFrames * IdleStep

----------------------------------------------------------------------------
(* Events *)

MouseEvent(t, x, y) ==
    [type |-> t, hasTouches |-> FALSE, touches |-> <<>>,
     clientX |-> x, clientY |-> y]

TouchEvent(t, ts) ==
    [type |-> t, hasTouches |-> TRUE, touches |-> ts,
     clientX |-> 0, clientY |-> 0]

\* What ev records: the type of the event or callback and the coordinates
\* its handler read (0, 0 when it read none).
Seen(t, x, y) == [type |-> t, x |-> x, y |-> y]

Callback(t) == Seen(t, 0, 0)

Touch(x, y) == [clientX |-> x, clientY |-> y]

getXY(e) ==
    IF e.hasTouches
    THEN [x |-> e.touches[1].clientX, y |-> e.touches[1].clientY]
    ELSE [x |-> e.clientX, y |-> e.clientY]

----------------------------------------------------------------------------
(* Pure helpers *)

Max(a, b) == IF a >= b THEN a ELSE b
Min(a, b) == IF a <= b THEN a ELSE b

RECURSIVE GCD(_, _)
GCD(a, b) == IF b = 0 THEN a ELSE GCD(b, a % b)

\* w / h of JavaScript on non-negative integers: <<1, 0>> is Infinity and
\* <<0, 0>> is NaN.
JSDiv(w, h) ==
    IF h = 0
    THEN IF w = 0 THEN <<0, 0>> ELSE <<1, 0>>
    ELSE <<w \div GCD(w, h), h \div GCD(w, h)>>

\* Variant: only the upper limit is applied.
ClampPitchUpperOnly(p) == Min(PiThird, p)

ClampPitch(p) == Max(-PiThird, Min(PiThird, p))

MountListeners ==
    { [type |-> "mousedown", handler |-> "onPointerDown"],
      [type |-> "mousemove", handler |-> "onPointerMove"],
      [type |-> "mouseup", handler |-> "onPointerUp"],
      [type |-> "mouseleave", handler |-> "onPointerUp"],
      [type |-> "touchstart", handler |-> "onPointerDown"],
      [type |-> "touchmove", handler |-> "onPointerMove"],
      [type |-> "touchend", handler |-> "onPointerUp"],
      [type |-> "touchcancel", handler |-> "onPointerUp"],
      [type |-> "resize", handler |-> "onResize"] }

CleanupRemoved ==
    { [type |-> "resize", handler |-> "onResize"],
      [type |-> "mousedown", handler |-> "onPointerDown"],
      [type |-> "mousemove", handler |-> "onPointerMove"],
      [type |-> "mouseup", handler |-> "onPointerUp"],
      [type |-> "mouseleave", handler |-> "onPointerUp"],
      [type |-> "touchstart", handler |-> "onPointerDown"],
      [type |-> "touchmove", handler |-> "onPointerMove"],
      [type |-> "touchend", handler |-> "onPointerUp"],
      [type |-> "touchcancel", handler |-> "onPointerUp"] }

Registered(t, h) == [type |-> t, handler |-> h] \in listeners

----------------------------------------------------------------------------
(* The handlers of the effect *)

onPointerDown(e) ==
    /\ isDragging' = TRUE
    /\ lastX' = getXY(e).x
    /\ lastY' = getXY(e).y
    /\ UNCHANGED <<rotationY, rotationX>>

\* Variant: the delta is clamped instead of the updated pitch.
onPointerMoveClampDelta(e) ==
    IF ~isDragging
    THEN UNCHANGED dragVars
    ELSE LET x == getXY(e).x
             y == getXY(e).y
             dx == x - lastX
             dy == y - lastY
         IN /\ rotationY' = rotationY + dx * YawPerPixel
            /\ rotationX' = rotationX + ClampPitch(dy * PitchPerPixel)
            /\ lastX' = x
            /\ lastY' = y
            /\ UNCHANGED isDragging

\* Variant: the last x coordinate is not refreshed by a move.
onPointerMoveStaleLastX(e) ==
    IF ~isDragging
    THEN UNCHANGED dragVars
    ELSE LET x == getXY(e).x
             y == getXY(e).y
             dx == x - lastX
             dy == y - lastY
         IN /\ rotationY' = rotationY + dx * YawPerPixel
            /\ rotationX' = ClampPitch(rotationX + dy * PitchPerPixel)
            /\ lastY' = y
            /\ UNCHANGED <<isDragging, lastX>>

onPointerMove(e) ==
    IF ~isDragging
    THEN UNCHANGED dragVars
    ELSE LET x == getXY(e).x
             y == getXY(e).y
             dx == x - lastX
             dy == y - lastY
         IN /\ rotationY' = rotationY + dx * YawPerPixel
            /\ rotationX' = ClampPitch(rotationX + dy * PitchPerPixel)
            /\ lastX' = x
            /\ lastY' = y
            /\ UNCHANGED isDragging

\* Variant: the flag is toggled instead of cleared.
onPointerUpToggle ==
    /\ isDragging' = ~isDragging
    /\ UNCHANGED <<lastX, lastY, rotationY, rotationX>>

onPointerUp ==
    /\ isDragging' = FALSE
    /\ UNCHANGED <<lastX, lastY, rotationY, rotationX>>

\* Variant: the aspect is height over width.
onResizeInvertedAspect ==
    LET w == clientSize[1]
        h == clientSize[2]
    IN /\ aspect' = JSDiv(h, w)
       /\ rendererSize' = <<w, h>>

\* Variant: the camera is updated but the renderer keeps its size.
onResizeNoSetSize ==
    LET w == clientSize[1]
        h == clientSize[2]
    IN /\ aspect' = JSDiv(w, h)
       /\ UNCHANGED rendererSize

onResize ==
    LET w == clientSize[1]
        h == clientSize[2]
    IN /\ aspect' = JSDiv(w, h)
       /\ rendererSize' = <<w, h>>

\* Variant: the idle step is added whatever the drag state.
animateAlwaysSpins ==
    /\ rotationY' = rotationY + IdleStep
    /\ renders' = renders + 1
    /\ rafPending' = (rafPending - 1) + 1
    /\ UNCHANGED <<isDragging, lastX, lastY, rotationX>>

animate ==
    /\ rotationY' = IF ~isDragging THEN rotationY + IdleStep ELSE rotationY
    /\ renders' = renders + 1
    /\ rafPending' = (rafPending - 1) + 1
    /\ UNCHANGED <<isDragging, lastX, lastY, rotationX>>

\* Variant: the touchmove listener is left registered.
cleanupKeepsTouchMove ==
    /\ listeners' = listeners \ (CleanupRemoved \
                        {[type |-> "touchmove", handler |-> "onPointerMove"]})
    /\ IF attached
       THEN attached' = FALSE /\ removeChildCalls' = removeChildCalls + 1
       ELSE UNCHANGED <<attached, removeChildCalls>>
    /\ disposed' = TRUE

cleanup ==
    /\ listeners' = listeners \ CleanupRemoved
    /\ IF attached
       THEN attached' = FALSE /\ removeChildCalls' = removeChildCalls + 1
       ELSE UNCHANGED <<attached, removeChildCalls>>
    /\ disposed' = TRUE

----------------------------------------------------------------------------
(* The state after the effect ran: one synchronous call of animate *)

Init ==
    /\ isDragging = FALSE
    /\ lastX = 0
    /\ lastY = 0
    /\ rotationY = IdleStep
    /\ rotationX = 0
    /\ clientSize \in Sizes
    /\ rendererSize = clientSize
    /\ aspect = JSDiv(clientSize[1], clientSize[2])
    /\ resizeQueued = FALSE
    /\ listeners = MountListeners
    /\ attached = TRUE
    /\ removeChildCalls = 0
    /\ disposed = FALSE
    /\ rafPending = 1
    /\ renders = 1
    /\ load = "pending"
    /\ children = 0
    /\ errorReports = 0
    /\ ev = Callback("mount")

----------------------------------------------------------------------------
(* Events of the canvas *)

PointerDownEvent(e) ==
    /\ IF Registered(e.type, "onPointerDown")
       THEN onPointerDown(e) /\ ev' = Seen(e.type, getXY(e).x, getXY(e).y)
       ELSE UNCHANGED dragVars /\ ev' = Callback(e.type)
    /\ UNCHANGED <<clientSize, viewVars, resizeQueued, lifeVars, rafPending,
                   renders, loadVars>>

PointerMoveEvent(e) ==
    /\ IF Registered(e.type, "onPointerMove")
       THEN onPointerMove(e)
       ELSE UNCHANGED dragVars
    /\ ev' = IF Registered(e.type, "onPointerMove") /\ isDragging
             THEN Seen(e.type, getXY(e).x, getXY(e).y)
             ELSE Callback(e.type)
    /\ YawInWindow(rotationY')
    /\ UNCHANGED <<clientSize, viewVars, resizeQueued, lifeVars, rafPending,
                   renders, loadVars>>

PointerUpEvent(e) ==
    /\ ev' = Callback(e.type)
    /\ IF Registered(e.type, "onPointerUp")
       THEN onPointerUp
       ELSE UNCHANGED dragVars
    /\ UNCHANGED <<clientSize, viewVars, resizeQueued, lifeVars, rafPending,
                   renders, loadVars>>

MouseDown ==
    \E x \in XCoords, y \in YCoords :
        PointerDownEvent(MouseEvent("mousedown", x, y))

TouchStart ==
    \E x \in XCoords, y \in YCoords :
        PointerDownEvent(TouchEvent("touchstart", <<Touch(x, y)>>))

MouseMove ==
    \E x \in XCoords, y \in YCoords :
        PointerMoveEvent(MouseEvent("mousemove", x, y))

TouchMove ==
    \E x \in XCoords, y \in YCoords :
        PointerMoveEvent(TouchEvent("touchmove", <<Touch(x, y)>>))

MouseUp == PointerUpEvent(MouseEvent("mouseup", 0, 0))

MouseLeave == PointerUpEvent(MouseEvent("mouseleave", 0, 0))

TouchEnd == PointerUpEvent(TouchEvent("touchend", <<>>))

TouchCancel == PointerUpEvent(TouchEvent("touchcancel", <<>>))

----------------------------------------------------------------------------
(* The window, the frame clock, the loader and the unmount *)

\* The viewport, and with it the 100vw x 100vh container, changes size; the
\* browser queues a resize event.  After the unmount the container has left
\* the document and nothing reads its size.
ContainerResized ==
    /\ ~disposed
    /\ \E s \in Sizes \ {clientSize} : clientSize' = s
    /\ resizeQueued' = TRUE
    /\ ev' = Callback("layout")
    /\ UNCHANGED <<dragVars, viewVars, lifeVars, rafPending, renders,
                   loadVars>>

WindowResize ==
    /\ ev' = Callback("resize")
    /\ resizeQueued' = FALSE
    /\ IF Registered("resize", "onResize")
       THEN onResize
       ELSE UNCHANGED viewVars
    /\ UNCHANGED <<dragVars, clientSize, lifeVars, rafPending, renders,
                   loadVars>>

AnimationFrame ==
    /\ rafPending > 0
    /\ renders < MaxFrames
    /\ animate
    /\ ev' = Callback("frame")
    /\ UNCHANGED <<clientSize, viewVars, resizeQueued, lifeVars, loadVars>>

LoadSuccess ==
    /\ load = "pending"
    /\ load' = "loaded"
    /\ children' = children + 1
    /\ ev' = Callback("load")
    /\ UNCHANGED <<dragVars, clientSize, viewVars, resizeQueued, lifeVars,
                   rafPending, renders, errorReports>>

\* Variant: the error callback reports and starts the load again.
LoadErrorRetries ==
    /\ load = "pending"
    /\ errorReports < 2
    /\ load' = "pending"
    /\ errorReports' = errorReports + 1
    /\ ev' = Callback("error")
    /\ UNCHANGED <<dragVars, clientSize, viewVars, resizeQueued, lifeVars,
                   rafPending, renders, children>>

LoadError ==
    /\ load = "pending"
    /\ load' = "failed"
    /\ errorReports' = errorReports + 1
    /\ ev' = Callback("error")
    /\ UNCHANGED <<dragVars, clientSize, viewVars, resizeQueued, lifeVars,
                   rafPending, renders, children>>

\* Something other than the cleanup takes the canvas out of the container.
CanvasDetached ==
    /\ attached
    /\ attached' = FALSE
    /\ ev' = Callback("detach")
    /\ UNCHANGED <<dragVars, clientSize, viewVars, resizeQueued, listeners,
                   removeChildCalls, disposed, rafPending, renders, loadVars>>

Unmount ==
    /\ ~disposed
    /\ cleanup
    /\ ev' = Callback("unmount")
    /\ UNCHANGED <<dragVars, clientSize, viewVars, resizeQueued, rafPending,
                   renders, loadVars>>

Next ==
    \/ MouseDown
    \/ TouchStart
    \/ MouseMove
    \/ TouchMove
    \/ MouseUp
    \/ MouseLeave
    \/ TouchEnd
    \/ TouchCancel
    \/ ContainerResized
    \/ WindowResize
    \/ AnimationFrame
    \/ LoadSuccess
    \/ LoadError
    \/ CanvasDetached
    \/ Unmount

Spec == Init /\ [][Next]_vars

----------------------------------------------------------------------------
(* Properties *)

UpTypes == {"mouseup", "mouseleave", "touchend", "touchcancel"}
DownTypes == {"mousedown", "touchstart"}
MoveTypes == {"mousemove", "touchmove"}

\* C1: in every reachable state the pitch of the group lies within
\* [-pi/3, +pi/3].
PitchWithinLimits == -PiThird <= rotationX /\ rotationX <= PiThird

\* A move during a drag ran into the lower limit.
PitchAtLowerLimit ==
    ev.type \in MoveTypes /\ isDragging /\ rotationX = -PiThird

\* C2: a frame adds exactly 0.005 rad to the yaw if and only if the drag
\* state is IDLE when it runs, and never changes the pitch or the drag state.
FrameSpinsIffIdle ==
    [][ev'.type = "frame" =>
         /\ rotationY' = (IF isDragging THEN rotationY
                                        ELSE rotationY + IdleStep)
         /\ rotationX' = rotationX
         /\ isDragging' = isDragging]_vars

\* A frame ran in the middle of a drag.
FrameDuringDrag == ev.type = "frame" /\ isDragging /\ renders > 1

\* C3: while the listeners are registered, each of mouseup, mouseleave,
\* touchend and touchcancel leaves the drag state IDLE and each of
\* mousedown and touchstart leaves it DRAGGING, whatever it was before;
\* none of them changes the yaw or the pitch.
UpForcesIdleDownForcesDragging ==
    [][/\ (ev'.type \in UpTypes /\ Registered(ev'.type, "onPointerUp"))
             => ~isDragging'
       /\ (ev'.type \in DownTypes /\ Registered(ev'.type, "onPointerDown"))
             => isDragging'
       /\ ev'.type \in (UpTypes \cup DownTypes)
             => (rotationY' = rotationY /\ rotationX' = rotationX)]_vars

\* A touchcancel was handled after a drag had been started.
TouchCancelAfterDrag ==
    ev.type = "touchcancel" /\ ~disposed /\ lastX = 150 /\ ~isDragging

\* C6: every run of the resize callback leaves the renderer size equal to
\* the container's client size and the camera aspect equal to width divided
\* by height, and changes nothing else.
ResizeSyncsRendererAndCamera ==
    [][(ev'.type = "resize" /\ Registered("resize", "onResize")) =>
         /\ rendererSize' = clientSize'
         /\ aspect' = JSDiv(clientSize'[1], clientSize'[2])
         /\ UNCHANGED <<dragVars, children, clientSize>>]_vars

\* The resize callback ran in the middle of a drag.
ResizeAfterContainerChange ==
    /\ ev.type = "resize"
    /\ ~disposed
    /\ isDragging
    /\ rendererSize = <<800, 600>>
    /\ aspect = <<4, 3>>

\* C7: a move at (x, y) while DRAGGING adds (x - lastX) * 0.01 to the yaw,
\* sets the pitch to clamp(pitch + (y - lastY) * 0.005), and sets last to
\* (x, y); a move while IDLE changes nothing.  From (100,100) a move to
\* (150,100) adds 0.5 to the yaw and keeps the pitch; from (100,100) a move
\* to (100,260) at pitch 0.3 or more ends at exactly pi/3.
MoveUpdatesRotation ==
    [][(ev'.type \in MoveTypes /\ Registered(ev'.type, "onPointerMove")) =>
         LET x == ev'.x
             y == ev'.y
         IN IF isDragging
            THEN /\ rotationY' = rotationY + (x - lastX) * YawPerPixel
                 /\ rotationX' = Max(-PiThird, Min(PiThird,
                                     rotationX + (y - lastY) * PitchPerPixel))
                 /\ lastX' = x
                 /\ lastY' = y
                 /\ isDragging'
                 /\ (lastX = 100 /\ lastY = 100 /\ x = 150 /\ y = 100)
                       => (rotationY' = rotationY + 500000
                           /\ rotationX' = rotationX)
                 /\ (lastX = 100 /\ lastY = 100 /\ x = 100 /\ y = 260
                     /\ rotationX >= 300000)
                       => rotationX' = PiThird
            ELSE UNCHANGED dragVars]_vars

\* A move from (100,100) to (100,260) ended at the upper limit.
MoveClampedAtUpperLimit ==
    /\ ev.type \in MoveTypes
    /\ isDragging
    /\ lastX = 100
    /\ lastY = 260
    /\ rotationX = PiThird

\* C10: while DRAGGING, yaw - 0.01 * lastX is left unchanged by every move,
\* frame, resize, layout and load callback, so the yaw change over a drag is
\* 0.01 * (x of the last move - x of the pointer-down).
YawTracksPointerDuringDrag ==
    [][(isDragging /\ ev'.type \notin (UpTypes \cup DownTypes)) =>
         rotationY' - YawPerPixel * lastX'
            = rotationY - YawPerPixel * lastX]_vars

\* A frame ran during a drag whose pointer had moved away from the x of the
\* pointer-down and back.
FrameAfterMoveDuringDrag ==
    /\ ev.type = "frame"
    /\ isDragging
    /\ renders >= 2
    /\ lastX = 150
    /\ rotationY = IdleStep + 500000

\* C4: the render loop is stopped by teardown: before teardown every frame
\* reschedules exactly one next frame, and once teardown has run no frame
\* callback renders the scene, changes the yaw or reschedules itself.
RenderLoopStopsAtTeardown ==
    [][ev'.type = "frame" =>
         IF ~disposed
         THEN rafPending' = 1 /\ renders' = renders + 1
         ELSE /\ renders' = renders
              /\ rotationY' = rotationY
              /\ rafPending' = 0]_vars

\* C5: between mount and teardown the renderer size equals the container's
\* current size in every state, also while a resize event is still waiting.
RendererAlwaysMatchesContainer == ~disposed => rendererSize = clientSize

\* C5 (amended): between mount and teardown the renderer size equals the
\* container's current size in every state in which no resize event is
\* waiting to be dispatched.
RendererMatchesContainerWhenSettled ==
    (~disposed /\ ~resizeQueued) => rendererSize = clientSize

\* The resize callback brought the renderer to a zero-height container.
RendererResizedToZeroHeight ==
    /\ ~disposed
    /\ ~resizeQueued
    /\ ev.type = "resize"
    /\ rendererSize = <<400, 0>>
    /\ renders > 1

\* C8: a rejected load is reported once and never retried, the group has no
\* children in any later state, and every later frame still renders and
\* reschedules; while the load is pending the group is empty, nothing is
\* reported and every frame renders and reschedules.
LoadFailureKeepsSceneRunning ==
    [][/\ load = "failed" =>
            /\ load' = "failed"
            /\ children' = 0
            /\ errorReports' = 1
       /\ load' = "pending" => (children' = 0 /\ errorReports' = 0)
       /\ ev'.type = "error" =>
            /\ load = "pending"
            /\ load' = "failed"
            /\ errorReports' = 1
            /\ UNCHANGED <<rafPending, renders, children>>
       /\ (load' # "loaded" /\ ev'.type = "frame") =>
            (renders' = renders + 1 /\ rafPending' = 1)]_vars

\* A frame rendered after the load had failed.
FrameAfterLoadFailure ==
    /\ load = "failed"
    /\ ev.type = "frame"
    /\ renders > 1
    /\ children = 0
    /\ errorReports = 1

\* C9: after teardown no mouse, touch or resize event changes the drag
\* state, the last coordinates, the yaw, the pitch, the camera aspect or the
\* renderer size; teardown removes every listener and calls removeChild only
\* if the canvas is still a child of the container.
TeardownSilencesEvents ==
    [][/\ (disposed /\ ev'.type \in
             (UpTypes \cup DownTypes \cup MoveTypes \cup {"resize"}))
            => UNCHANGED <<dragVars, viewVars>>
       /\ ev'.type = "unmount" =>
            /\ listeners' = {}
            /\ ~attached'
            /\ removeChildCalls' =
                 removeChildCalls + (IF attached THEN 1 ELSE 0)]_vars

\* After a teardown in the middle of a drag, a touchmove arrived and no
\* handler read its coordinates.
IgnoredMoveAfterTeardown ==
    /\ disposed
    /\ ev = Callback("touchmove")
    /\ isDragging

====
